---- MODULE Spec2Model ----
(***************************************************************************)
(* A model of ILA (Intelligent Local Archive): the note store              *)
(* (database.py), the vector codec and the similarity engine               *)
(* (ai_logic.py), the chunker and the file ingestion (ingestor.py) and the *)
(* CLI commands add, delete, list, find and ingest (main.py).              *)
(*                                                                         *)
(* Conventions.                                                            *)
(*  - A text is a sequence of one-character strings.                       *)
(*  - A float32 is the triple <<sign, exponent, mantissa>> of its IEEE-754 *)
(*    fields; a byte is a number in 0..255; a blob is a sequence of bytes. *)
(*  - Arithmetic on float values is exact: every float the model draws has *)
(*    an integer value, and a similarity dot/(|a||b|) is kept as the       *)
(*    record [s, p, q] standing for s * sqrt(p/q), p/q in lowest terms.    *)
(*    Rounding of the float operations is not modelled.                    *)
(*  - A value that can be None is None or Some(v).                         *)
(*  - A function that can raise returns [status |-> "ok", val |-> v] or    *)
(*    [status |-> "error", err |-> <exception name>].                      *)
(***************************************************************************)
EXTENDS Integers, Sequences, FiniteSets

VARIABLES
    notes,      \* the notes table of ila.db, as SELECT ... ORDER BY id ASC returns it
    nextId,     \* the id AUTOINCREMENT gives the next inserted row
    model,      \* ai_logic._model: None or the loaded handle
    loads,      \* how many times SentenceTransformer(...) was constructed
    last,       \* what the last CLI command did (its observable outcome)
    deleted,    \* history: the ids of the stored notes a delete has removed
    inp,        \* the arguments of a pure function under check
    outp,       \* its result
    pc          \* where the pure-function harness stands

vars == <<notes, nextId, model, loads, last, deleted, inp, outp, pc>>

\* An optional value: None, or Some(v) holding v.
None == <<>>

Some(v) == <<v>>

IsNone(o) == Len(o) = 0

Val(o) == o[1]

Ok(v) == [status |-> "ok", val |-> v]

Raise(e) == [status |-> "error", err |-> e]

(***************************************************************************)
(* Bounds of the model.                                                    *)
(***************************************************************************)
MaxCodecLen == 3        \* longest vector the codec harness draws

MaxDim == 2             \* longest vector the similarity harnesses draw

MaxRows == 2            \* most rows of a candidate matrix

MaxTextLen == 8         \* longest text the chunker harness draws

MaxChunkSize == 4       \* largest chunk_size the chunker harness draws

MaxInit == 1            \* most notes of the store when the run starts

MaxId == 4              \* no insert is tried once nextId exceeds this

IngestChunkSize == 3    \* stands for the 500 of ingest_file, scaled to the texts drawn

(***************************************************************************)
(* Small helpers on sequences and numbers.                                 *)
(***************************************************************************)
Abs(x) == IF x < 0 THEN -x ELSE x

Sign(x) == IF x < 0 THEN -1 ELSE IF x = 0 THEN 0 ELSE 1

Min(a, b) == IF a <= b THEN a ELSE b

RECURSIVE Gcd(_, _)
Gcd(a, b) == IF b = 0 THEN a ELSE Gcd(b, a % b)

RECURSIVE Pow2(_)
Pow2(n) == IF n = 0 THEN 1 ELSE 2 * Pow2(n - 1)

SeqsUpTo(S, n) == UNION {[1..k -> S] : k \in 0..n}

RECURSIVE Concat(_)
Concat(ss) == IF ss = <<>> THEN <<>> ELSE Head(ss) \o Concat(Tail(ss))

(***************************************************************************)
(* float32 and the vector codec (ai_logic.py).                             *)
(***************************************************************************)
\* float32: 23 mantissa bits (2^23 = 8388608), exponent bias 127.
MantissaOne == 8388608

ExponentBias == 127

Float(s, e, m) == <<s, e, m>>

\* The value of a float32 whose value is an integer (zero, or 2^(e-127) * 1.m).
FloatVal(f) ==
    IF f[2] = 0 /\ f[3] = 0 THEN 0
    ELSE (IF f[1] = 1 THEN -1 ELSE 1)
         * (((MantissaOne + f[3]) * Pow2(f[2] - ExponentBias)) \div MantissaOne)

\* The integer-valued floats -2 .. 2 (and 3) as float32.
FloatOf(n) ==
    CASE n = 0 -> Float(0, 0, 0)
      [] Abs(n) = 1 -> Float(IF n < 0 THEN 1 ELSE 0, ExponentBias, 0)
      [] Abs(n) = 2 -> Float(IF n < 0 THEN 1 ELSE 0, ExponentBias + 1, 0)
      [] Abs(n) = 3 -> Float(IF n < 0 THEN 1 ELSE 0, ExponentBias + 1, MantissaOne \div 2)

VecOf(ints) == [i \in 1..Len(ints) |-> FloatOf(ints[i])]

\* The four bytes of one float32, least significant first (ndarray.tobytes on
\* the little-endian layout the spec fixes).
FloatToBytes(f) ==
    << f[3] % 256,
       (f[3] \div 256) % 256,
       (f[2] % 2) * 128 + f[3] \div 65536,
       f[1] * 128 + f[2] \div 2 >>

BytesToFloat(b) ==
    Float(b[4] \div 128,
          (b[4] % 128) * 2 + b[3] \div 128,
          (b[3] % 128) * 65536 + b[2] * 256 + b[1])

\* A mutant of bytes_to_vector's element decoding: the four bytes read most
\* significant first.
BytesToFloatBigEndian(b) ==
    Float(b[1] \div 128,
          (b[1] % 128) * 2 + b[2] \div 128,
          (b[2] % 128) * 65536 + b[3] * 256 + b[4])

\* vector.tobytes()
vector_to_bytes(vector) == Concat([i \in 1..Len(vector) |-> FloatToBytes(vector[i])])

\* A mutant of bytes_to_vector: the element bytes read most significant first.
bytes_to_vector_bigendian(data) ==
    IF IsNone(data) THEN Ok(None)
    ELSE IF Len(Val(data)) % 4 # 0 THEN Raise("ValueError")
    ELSE Ok(Some([i \in 1..(Len(Val(data)) \div 4) |->
                    BytesToFloatBigEndian(SubSeq(Val(data), 4 * i - 3, 4 * i))]))

\* np.frombuffer(data, dtype=np.float32).flatten(), None for None; frombuffer
\* raises ValueError when the size is no multiple of the element size.
bytes_to_vector(data) ==
    IF IsNone(data) THEN Ok(None)
    ELSE IF Len(Val(data)) % 4 # 0 THEN Raise("ValueError")
    ELSE Ok(Some([i \in 1..(Len(Val(data)) \div 4) |->
                    BytesToFloat(SubSeq(Val(data), 4 * i - 3, 4 * i))]))

(***************************************************************************)
(* The similarity engine (ai_logic.py).                                    *)
(***************************************************************************)
RECURSIVE SumSeq(_)
SumSeq(s) == IF s = <<>> THEN 0 ELSE Head(s) + SumSeq(Tail(s))

\* np.dot of two vectors of one length, on their values.
Dot(a, b) == SumSeq([i \in 1..Len(a) |-> FloatVal(a[i]) * FloatVal(b[i])])

\* The square of np.linalg.norm(v): the norm is zero exactly when this is.
NormSq(v) == Dot(v, v)

\* The score 0.0.
Zero == [s |-> 0, p |-> 0, q |-> 1]

\* What a division by a zero norm leaves: not a number.
NaN == [s |-> 0, p |-> 0, q |-> 0]

\* The score 1.0 or -1.0.
Unit(sgn) == [s |-> sgn, p |-> 1, q |-> 1]

\* n / sqrt(d2), for d2 > 0, as s * sqrt(p/q) in lowest terms.
Ratio(n, d2) ==
    IF n = 0 THEN Zero
    ELSE LET g == Gcd(n * n, d2)
         IN  [s |-> Sign(n), p |-> (n * n) \div g, q |-> d2 \div g]

\* np.clip(x, -1.0, 1.0)
Clip(x) == IF x.p > x.q THEN Unit(x.s) ELSE x

\* x < y on scores.
ScoreLess(x, y) ==
    \/ x.s < y.s
    \/ x.s = 1 /\ y.s = 1 /\ x.p * y.q < y.p * x.q
    \/ x.s = -1 /\ y.s = -1 /\ x.p * y.q > y.p * x.q

\* A mutant of cosine_similarity: no guard against a zero norm.
cosine_similarity_unguarded(vec1, vec2) ==
    IF IsNone(vec1) \/ IsNone(vec2) THEN Zero
    ELSE IF Len(Val(vec1)) # Len(Val(vec2)) THEN Zero
    ELSE LET dot_product == Dot(Val(vec1), Val(vec2))
             d2 == NormSq(Val(vec1)) * NormSq(Val(vec2))
         IN  IF d2 = 0 THEN NaN ELSE Clip(Ratio(dot_product, d2))

cosine_similarity(vec1, vec2) ==
    IF IsNone(vec1) \/ IsNone(vec2) THEN Zero
    ELSE IF Len(Val(vec1)) # Len(Val(vec2)) THEN Zero
    ELSE LET dot_product == Dot(Val(vec1), Val(vec2))
             norm1 == NormSq(Val(vec1))
             norm2 == NormSq(Val(vec2))
         IN  IF norm1 = 0 \/ norm2 = 0 THEN Zero
             ELSE Clip(Ratio(dot_product, norm1 * norm2))

\* np.array(list of 1-D arrays): a matrix when the rows have one length; a
\* ragged list raises ValueError (or, on an old numpy, gives an array of
\* objects on which the batch's norm over axis 1 raises): find fails either way.
NpArray(rows) ==
    IF \A i, j \in 1..Len(rows) : Len(rows[i]) = Len(rows[j])
    THEN Ok(rows) ELSE Raise("ValueError")

\* A mutant of cosine_similarity_batch: a zero row norm is not replaced by 1.
cosine_similarity_batch_unguarded(query_vec, note_vectors) ==
    IF IsNone(query_vec) \/ IsNone(note_vectors) THEN Ok(<<>>)
    ELSE IF Len(Val(note_vectors)) = 0 THEN Ok(<<>>)
    ELSE LET q == Val(query_vec)
             m == Val(note_vectors)
             query_norm == NormSq(q)
         IN  IF query_norm = 0 THEN Ok([i \in 1..Len(m) |-> Zero])
             ELSE IF Len(m[1]) # Len(q) THEN Raise("ValueError")
             ELSE Ok([i \in 1..Len(m) |->
                        IF NormSq(m[i]) = 0 THEN NaN
                        ELSE Clip(Ratio(Dot(m[i], q), NormSq(m[i]) * query_norm))])

\* query_vec: Some vector or None; note_vectors: Some matrix (rows of one
\* length) or None. The result is the sequence of scores, or the error np.dot raises when
\* the width of the matrix is not the length of the query.
cosine_similarity_batch(query_vec, note_vectors) ==
    IF IsNone(query_vec) \/ IsNone(note_vectors) THEN Ok(<<>>)
    ELSE IF Len(Val(note_vectors)) = 0 THEN Ok(<<>>)
    ELSE LET q == Val(query_vec)
             m == Val(note_vectors)
             query_norm == NormSq(q)
         IN  IF query_norm = 0 THEN Ok([i \in 1..Len(m) |-> Zero])
             ELSE IF Len(m[1]) # Len(q) THEN Raise("ValueError")
             ELSE Ok([i \in 1..Len(m) |->
                        LET n == NormSq(m[i])
                            note_norm == IF n = 0 THEN 1 ELSE n
                        IN  Clip(Ratio(Dot(m[i], q), note_norm * query_norm))])

(***************************************************************************)
(* The chunker (ingestor.py).                                              *)
(***************************************************************************)
Whitespace == {" "}

\* str.split(): the maximal runs of non-whitespace characters, in order.
RECURSIVE SplitFrom(_, _, _, _)
SplitFrom(text, i, cur, acc) ==
    IF i > Len(text) THEN (IF cur = <<>> THEN acc ELSE Append(acc, cur))
    ELSE IF text[i] \in Whitespace
         THEN SplitFrom(text, i + 1, <<>>, IF cur = <<>> THEN acc ELSE Append(acc, cur))
         ELSE SplitFrom(text, i + 1, Append(cur, text[i]), acc)

Split(text) == SplitFrom(text, 1, <<>>, <<>>)

\* " ".join(words)
RECURSIVE Join(_)
Join(words) ==
    IF words = <<>> THEN <<>>
    ELSE IF Len(words) = 1 THEN words[1]
    ELSE words[1] \o <<" ">> \o Join(Tail(words))

\* The loop of chunk_text from word i on, and the final flush.
RECURSIVE ChunkLoop(_, _, _, _, _, _)
ChunkLoop(words, i, chunks, current_chunk, current_length, chunk_size) ==
    IF i > Len(words)
    THEN IF current_chunk # <<>> THEN Append(chunks, Join(current_chunk)) ELSE chunks
    ELSE LET word == words[i]
             word_length == Len(word) + 1
         IN  IF current_length + word_length > chunk_size /\ current_chunk # <<>>
             THEN ChunkLoop(words, i + 1, Append(chunks, Join(current_chunk)),
                            <<word>>, Len(word), chunk_size)
             ELSE ChunkLoop(words, i + 1, chunks,
                            Append(current_chunk, word), current_length + word_length,
                            chunk_size)

\* A mutant of chunk_text: the last chunk is never flushed.
RECURSIVE ChunkLoopNoFlush(_, _, _, _, _, _)
ChunkLoopNoFlush(words, i, chunks, current_chunk, current_length, chunk_size) ==
    IF i > Len(words) THEN chunks
    ELSE LET word == words[i]
             word_length == Len(word) + 1
         IN  IF current_length + word_length > chunk_size /\ current_chunk # <<>>
             THEN ChunkLoopNoFlush(words, i + 1, Append(chunks, Join(current_chunk)),
                                   <<word>>, Len(word), chunk_size)
             ELSE ChunkLoopNoFlush(words, i + 1, chunks,
                                   Append(current_chunk, word), current_length + word_length,
                                   chunk_size)

chunk_text_no_flush(text, chunk_size) ==
    IF Len(text) <= chunk_size THEN <<text>>
    ELSE ChunkLoopNoFlush(Split(text), 1, <<>>, <<>>, 0, chunk_size)

chunk_text(text, chunk_size) ==
    IF Len(text) <= chunk_size THEN <<text>>
    ELSE ChunkLoop(Split(text), 1, <<>>, <<>>, 0, chunk_size)

(***************************************************************************)
(* The embedder (ai_logic.py).                                             *)
(***************************************************************************)
\* ai_logic._model before the first get_model(), and after it.
NoModel == "None"

Loaded == "all-MiniLM-L6-v2"

\* A mutant of get_model: the handle is constructed on every call.
get_model_reload(m, n) == [model |-> Loaded, loads |-> n + 1]

\* get_model(): the handle, constructed when _model is None.
get_model(m, n) ==
    IF m = NoModel THEN [model |-> Loaded, loads |-> n + 1]
    ELSE [model |-> m, loads |-> n]

\* model.encode(text, normalize_embeddings=True): the pretrained model is
\* opaque; this stand-in is deterministic, gives unit vectors of one length,
\* and the zero vector for the empty text (the spec allows a zero norm there).
Embed(text) ==
    IF text = <<>> THEN VecOf(<<0, 0>>)
    ELSE IF text[1] = "a" THEN VecOf(<<1, 0>>)
    ELSE VecOf(<<0, 1>>)

(***************************************************************************)
(* The note store (database.py).                                           *)
(***************************************************************************)
Digits == <<"0", "1", "2", "3", "4", "5", "6", "7", "8", "9">>

\* str(n) for n >= 0
RECURSIVE Str(_)
Str(n) == IF n < 10 THEN <<Digits[n + 1]>> ELSE Str(n \div 10) \o <<Digits[(n % 10) + 1]>>

DigitVal(c) == CHOOSE d \in 0..9 : Digits[d + 1] = c

\* The integer a text bound to "id = ?" compares as, under the column's
\* INTEGER affinity: Some(n) for a run of digits, None for a text that is no
\* number (it equals no id).
RECURSIVE ParseFrom(_, _, _)
ParseFrom(text, i, acc) ==
    IF i > Len(text) THEN Some(acc)
    ELSE IF \E d \in 0..9 : Digits[d + 1] = text[i]
         THEN ParseFrom(text, i + 1, acc * 10 + DigitVal(text[i]))
         ELSE None

ParseInt(text) == IF text = <<>> THEN None ELSE ParseFrom(text, 1, 0)

RECURSIVE MaxIdOf(_)
MaxIdOf(ns) == IF ns = <<>> THEN 0
               ELSE LET m == MaxIdOf(Tail(ns)) IN IF Head(ns).id > m THEN Head(ns).id ELSE m

\* A mutant of the table's id column: without AUTOINCREMENT the new rowid is
\* one more than the largest rowid now in the table.
RowIdMaxPlusOne(ns, seq) == MaxIdOf(ns) + 1

\* id INTEGER PRIMARY KEY AUTOINCREMENT: one more than the largest rowid the
\* table ever held, which sqlite_sequence (seq) remembers.
NewRowId(ns, seq) == seq

\* The parameters of database.add_note.
add_note_parameters == <<"content", "embedding">>

\* Whether a call with npos positional arguments and the keyword arguments
\* keywords binds to the parameters params; Python raises TypeError otherwise.
CallBinds(params, npos, keywords) ==
    /\ npos <= Len(params)
    /\ \A k \in keywords : \E i \in (npos + 1)..Len(params) : params[i] = k

\* INSERT INTO notes (content, embedding) VALUES (?, ?): the table after it.
add_note(ns, seq, content, embedding) ==
    Append(ns, [id |-> NewRowId(ns, seq), content |-> content, embedding |-> embedding])

\* SELECT id, content, created_at, embedding FROM notes ORDER BY id ASC, each
\* id as str(id).
get_all_notes(ns) ==
    [i \in 1..Len(ns) |->
        [id |-> Str(ns[i].id), content |-> ns[i].content, embedding |-> ns[i].embedding]]

\* DELETE FROM notes WHERE id = ?
delete_note(ns, note_id) ==
    IF IsNone(ParseInt(note_id)) THEN ns
    ELSE SelectSeq(ns, LAMBDA n : n.id # Val(ParseInt(note_id)))

(***************************************************************************)
(* find (main.py).                                                         *)
(***************************************************************************)
TopK == 3

\* x placed behind every entry whose similarity is not less than its own.
RECURSIVE InsertDesc(_, _)
InsertDesc(x, sorted) ==
    IF sorted = <<>> THEN <<x>>
    ELSE IF ScoreLess(Head(sorted).similarity, x.similarity) THEN <<x>> \o sorted
    ELSE <<Head(sorted)>> \o InsertDesc(x, Tail(sorted))

\* x placed before the first entry whose similarity is not more than its own.
RECURSIVE InsertDescTiesFirst(_, _)
InsertDescTiesFirst(x, sorted) ==
    IF sorted = <<>> THEN <<x>>
    ELSE IF ~ScoreLess(x.similarity, Head(sorted).similarity) THEN <<x>> \o sorted
    ELSE <<Head(sorted)>> \o InsertDescTiesFirst(x, Tail(sorted))

RECURSIVE SortFrom(_, _, _)
SortFrom(items, i, sorted) ==
    IF i > Len(items) THEN sorted
    ELSE SortFrom(items, i + 1, InsertDesc(items[i], sorted))

RECURSIVE SortFromTiesFirst(_, _, _)
SortFromTiesFirst(items, i, sorted) ==
    IF i > Len(items) THEN sorted
    ELSE SortFromTiesFirst(items, i + 1, InsertDescTiesFirst(items[i], sorted))

\* A mutant of the sort: an ascending sort read backwards, which turns the
\* order of equal similarities around.
SortBySimilarityReversed(items) == SortFromTiesFirst(items, 1, <<>>)

\* note_similarities.sort(key=lambda x: x["similarity"], reverse=True):
\* descending, and stable (equal keys keep their order).
SortBySimilarity(items) == SortFrom(items, 1, <<>>)

\* A mutant of find's filter: every note is kept.
HasEmbeddingAlways(note) == TRUE

\* note["embedding"] is not None
HasEmbedding(note) == ~IsNone(note.embedding)

\* The outcome of find(query) on the table ns: what it prints (out), or the
\* exception that ends it.
find(query, ns) ==
    LET query_embedding == Embed(query)
        all == get_all_notes(ns)
        notes_with_embeddings == SelectSeq(all, HasEmbedding)
        decoded == [i \in 1..Len(notes_with_embeddings) |->
                       bytes_to_vector(notes_with_embeddings[i].embedding)]
        cands == [i \in 1..Len(notes_with_embeddings) |-> notes_with_embeddings[i].id]
        empty == [status |-> "ok", err |-> "none", out |-> <<>>, cands |-> <<>>,
                  engine |-> FALSE]
    IN  IF all = <<>> THEN empty
        ELSE IF notes_with_embeddings = <<>> THEN empty
        ELSE IF \E i \in 1..Len(decoded) : decoded[i].status = "error"
        THEN [status |-> "error", err |-> "ValueError", out |-> <<>>, cands |-> cands,
              engine |-> FALSE]
        ELSE LET note_vectors ==
                     [i \in 1..Len(decoded) |->
                         IF IsNone(decoded[i].val) THEN <<>> ELSE Val(decoded[i].val)]
                 note_vectors_array == NpArray(note_vectors)
             IN  IF note_vectors_array.status = "error"
                 THEN [status |-> "error", err |-> "ValueError", out |-> <<>>,
                       cands |-> cands, engine |-> FALSE]
                 ELSE LET similarities ==
                              cosine_similarity_batch(Some(query_embedding),
                                                      Some(note_vectors_array.val))
                      IN  IF similarities.status = "error"
                          THEN [status |-> "error", err |-> "ValueError", out |-> <<>>,
                                cands |-> cands, engine |-> TRUE]
                          ELSE LET note_similarities ==
                                       [i \in 1..Len(notes_with_embeddings) |->
                                           [note |-> notes_with_embeddings[i],
                                            similarity |-> similarities.val[i]]]
                                   sorted == SortBySimilarity(note_similarities)
                               IN  [status |-> "ok", err |-> "none",
                                    out |-> SubSeq(sorted, 1, Min(TopK, Len(sorted))),
                                    cands |-> cands, engine |-> TRUE]

(***************************************************************************)
(* ingest_file (ingestor.py).                                              *)
(***************************************************************************)
allowed_types ==
    {"text/plain", "text/html", "text/css", "text/javascript", "text/xml",
     "application/javascript", "application/json", "application/xml",
     "application/x-sh", "application/x-python"}

text_extensions ==
    {".txt", ".md", ".py", ".js", ".html", ".css", ".json", ".xml", ".sh", ".bat",
     ".ps1", ".yml", ".yaml", ".csv"}

\* The keyword arguments ingest_file passes to add_note beside the two
\* positional ones.
ingest_add_note_keywords == {"source_file"}

\* The loop of ingest_file over the chunks from chunk i on.  r is the state
\* so far: the table, the sequence, the model handle, the chunks saved and
\* the calls of text_to_vector made.
RECURSIVE IngestLoop(_, _, _)
IngestLoop(chunks, i, r) ==
    IF i > Len(chunks)
    THEN [r EXCEPT !.status = "ok", !.out = r.successful_chunks]
    ELSE LET g == get_model(r.model, r.loads)
             embedding_bytes == vector_to_bytes(Embed(chunks[i]))
             embedded == [r EXCEPT !.model = g.model, !.loads = g.loads,
                                   !.embeds = r.embeds + 1]
         IN  IF ~CallBinds(add_note_parameters, 2, ingest_add_note_keywords)
             THEN \* TypeError, caught by "except Exception" and raised again
                  \* as sqlite3.Error
                  [embedded EXCEPT !.status = "error", !.err = "sqlite3.Error"]
             ELSE IngestLoop(chunks, i + 1,
                     [embedded EXCEPT
                         !.notes = add_note(r.notes, r.seq, chunks[i], Some(embedding_bytes)),
                         !.seq = NewRowId(r.notes, r.seq) + 1,
                         !.successful_chunks = r.successful_chunks + 1])

\* A mutant of ingest_file: the file type is not checked.
ingest_file_any_type(file, ns, seq, m, n) ==
    LET r0 == [status |-> "ok", err |-> "none", out |-> 0, notes |-> ns, seq |-> seq,
               model |-> m, loads |-> n, successful_chunks |-> 0, embeds |-> 0,
               chunker |-> FALSE]
        chunks == chunk_text(file.text, IngestChunkSize)
    IN  IF ~file.exists THEN [r0 EXCEPT !.status = "error", !.err = "FileNotFoundError"]
        ELSE IF ~file.is_file THEN [r0 EXCEPT !.status = "error", !.err = "ValueError"]
        ELSE IF ~file.utf8 THEN [r0 EXCEPT !.status = "error", !.err = "IOError"]
        ELSE IF chunks = <<>> THEN [r0 EXCEPT !.chunker = TRUE]
        ELSE IngestLoop(chunks, 1, [r0 EXCEPT !.chunker = TRUE])

\* The outcome of ingest_file(file) on the table ns with sequence seq.
ingest_file(file, ns, seq, m, n) ==
    LET r0 == [status |-> "ok", err |-> "none", out |-> 0, notes |-> ns, seq |-> seq,
               model |-> m, loads |-> n, successful_chunks |-> 0, embeds |-> 0,
               chunker |-> FALSE]
        chunks == chunk_text(file.text, IngestChunkSize)
    IN  IF ~file.exists THEN [r0 EXCEPT !.status = "error", !.err = "FileNotFoundError"]
        ELSE IF ~file.is_file THEN [r0 EXCEPT !.status = "error", !.err = "ValueError"]
        ELSE IF file.mime_type = "None" /\ file.suffix \notin text_extensions
        THEN [r0 EXCEPT !.status = "error", !.err = "ValueError"]
        ELSE IF file.mime_type # "None" /\ file.mime_type \notin allowed_types
        THEN [r0 EXCEPT !.status = "error", !.err = "ValueError"]
        ELSE IF ~file.utf8 THEN [r0 EXCEPT !.status = "error", !.err = "IOError"]
        ELSE IF chunks = <<>> THEN [r0 EXCEPT !.chunker = TRUE]
        ELSE IngestLoop(chunks, 1, [r0 EXCEPT !.chunker = TRUE])

(***************************************************************************)
(* The state of the archive when no command has run: an empty store.  The  *)
(* harnesses of the pure functions keep it so.                             *)
(***************************************************************************)
NoCommand ==
    [op |-> "none", arg |-> None, status |-> "ok", err |-> "none", out |-> <<>>,
     before |-> <<>>, cands |-> <<>>, engine |-> FALSE, chunker |-> FALSE,
     embeds |-> 0]

StoreIdle ==
    /\ notes = <<>>
    /\ nextId = 1
    /\ model = NoModel
    /\ loads = 0
    /\ last = NoCommand
    /\ deleted = {}

storeVars == <<notes, nextId, model, loads, last, deleted>>

(***************************************************************************)
(* SpecCodec: vector_to_bytes and bytes_to_vector on drawn float32         *)
(* vectors, and bytes_to_vector on None.                                   *)
(***************************************************************************)
\* 0.0, 1.0, -1.0, 0.1 (0x3DCCCCCD), -2.75 (0xC0300000), a NaN (0x7FC00000)
Float32Samples ==
    { Float(0, 0, 0), Float(0, 127, 0), Float(1, 127, 0),
      Float(0, 123, 5033165), Float(1, 128, 3145728), Float(0, 255, 4194304) }

CodecInit ==
    /\ StoreIdle
    /\ pc = "codec"
    /\ inp \in [vector : {Some(v) : v \in SeqsUpTo(Float32Samples, MaxCodecLen)} \cup {None}]
    /\ outp = [bytes |-> None, decoded |-> None]

Encode ==
    /\ pc = "codec"
    /\ ~IsNone(inp.vector)
    /\ outp' = [outp EXCEPT !.bytes = Some(vector_to_bytes(Val(inp.vector)))]
    /\ pc' = "encoded"
    /\ UNCHANGED <<storeVars, inp>>

Decode ==
    /\ pc = "encoded" \/ (pc = "codec" /\ IsNone(inp.vector))
    /\ outp' = [outp EXCEPT !.decoded = bytes_to_vector(outp.bytes)]
    /\ pc' = "decoded"
    /\ UNCHANGED <<storeVars, inp>>

CodecNext == Encode \/ Decode

SpecCodec == CodecInit /\ [][CodecNext]_vars

(***************************************************************************)
(* SpecPair: cosine_similarity on drawn pairs, None included.              *)
(***************************************************************************)
SimInts == {-1, 0, 1, 2}

SimVecs == {VecOf(v) : v \in UNION {[1..k -> SimInts] : k \in 1..MaxDim}}

PairInit ==
    /\ StoreIdle
    /\ pc = "pair"
    /\ inp \in [vec1 : {Some(v) : v \in SimVecs} \cup {None},
                vec2 : {Some(v) : v \in SimVecs} \cup {None}]
    /\ outp = None

CosinePair ==
    /\ pc = "pair"
    /\ outp' = cosine_similarity(inp.vec1, inp.vec2)
    /\ pc' = "done"
    /\ UNCHANGED <<storeVars, inp>>

SpecPair == PairInit /\ [][CosinePair]_vars

(***************************************************************************)
(* SpecBatch: cosine_similarity_batch on a drawn query and a drawn matrix  *)
(* of N >= 0 rows, beside cosine_similarity on each row.  The matrices     *)
(* whose width is not the length of the query are drawn too.               *)
(***************************************************************************)
BatchInts == {-1, 0, 1}

BatchVecs(w) == {VecOf(v) : v \in [1..w -> BatchInts]}

RowInts == {0, 1}

\* The matrices of up to MaxRows rows of one width.
Matrices == UNION {SeqsUpTo({VecOf(v) : v \in [1..w -> RowInts]}, MaxRows) : w \in 1..MaxDim}

BatchInit ==
    /\ StoreIdle
    /\ pc = "batch"
    /\ inp \in [query : UNION {BatchVecs(w) : w \in 1..MaxDim}, matrix : Matrices]
    /\ outp = None

CosineBatch ==
    /\ pc = "batch"
    /\ outp' = [batch |-> cosine_similarity_batch(Some(inp.query), Some(inp.matrix)),
                single |-> [i \in 1..Len(inp.matrix) |->
                              cosine_similarity(Some(inp.query), Some(inp.matrix[i]))]]
    /\ pc' = "done"
    /\ UNCHANGED <<storeVars, inp>>

SpecBatch == BatchInit /\ [][CosineBatch]_vars

(***************************************************************************)
(* SpecChunk: chunk_text on drawn texts and chunk sizes.                   *)
(***************************************************************************)
Alphabet == {"a", "b", " "}

ChunkInit ==
    /\ StoreIdle
    /\ pc = "chunk"
    /\ inp \in [text : SeqsUpTo(Alphabet, MaxTextLen), chunk_size : 1..MaxChunkSize]
    /\ outp = None

ChunkCall ==
    /\ pc = "chunk"
    /\ outp' = chunk_text(inp.text, inp.chunk_size)
    /\ pc' = "done"
    /\ UNCHANGED <<storeVars, inp>>

SpecChunk == ChunkInit /\ [][ChunkCall]_vars

(***************************************************************************)
(* Spec: the CLI commands on one archive.  The run starts on any ila.db    *)
(* the table's schema admits (content TEXT NOT NULL, embedding BLOB): up   *)
(* to MaxInit notes with ids 1.., each with no embedding (a note from      *)
(* before the embedding column was added) or with some blob.               *)
(***************************************************************************)
OldContent == <<"o", "l", "d">>

\* The embeddings a note of the starting table may carry: none; the vectors
\* (1,1) and (-1,0); and vectors of another length than the embedder's, (1)
\* and (1,0,1).
InitBlobs ==
    { None,
      Some(vector_to_bytes(VecOf(<<1, 1>>))),
      Some(vector_to_bytes(VecOf(<<-1, 0>>))),
      Some(vector_to_bytes(VecOf(<<1>>))),
      Some(vector_to_bytes(VecOf(<<1, 0, 1>>))) }

InitTables ==
    UNION { { [i \in 1..n |-> [id |-> i, content |-> OldContent, embedding |-> e[i]]] :
                e \in [1..n -> InitBlobs] } : n \in 0..MaxInit }

\* The texts add and find are given.
Texts == { <<>>, <<"a">>, <<"b">> }

\* The arguments delete is given: every id as get_all_notes shows it, and a
\* text that is no number.
DeleteArgs == { Str(i) : i \in 1..MaxId } \cup { <<"x">> }

File(name, exists, is_file, mime_type, suffix, utf8, text) ==
    [name |-> name, exists |-> exists, is_file |-> is_file, mime_type |-> mime_type,
     suffix |-> suffix, utf8 |-> utf8, text |-> text]

\* The paths ingest is given: a missing path, a directory, two files of
\* unsupported type, a file that is no UTF-8, and text files: an empty one,
\* one of a single chunk, one of whitespace only and one of three chunks.
Files ==
    { File("missing.txt", FALSE, FALSE, "text/plain", ".txt", FALSE, <<>>),
      File("docs", TRUE, FALSE, "None", "", FALSE, <<>>),
      File("photo.png", TRUE, TRUE, "image/png", ".png", TRUE, <<"a">>),
      File("data.xyz", TRUE, TRUE, "None", ".xyz", TRUE, <<"a">>),
      File("binary.txt", TRUE, TRUE, "text/plain", ".txt", FALSE, <<>>),
      File("empty.txt", TRUE, TRUE, "text/plain", ".txt", TRUE, <<>>),
      File("one.txt", TRUE, TRUE, "text/plain", ".txt", TRUE, <<"a", " ", "b">>),
      File("blank.yml", TRUE, TRUE, "None", ".yml", TRUE, <<" ", " ", " ", " ", " ", " ", " ", " ">>),
      File("three.yml", TRUE, TRUE, "None", ".yml", TRUE,
           <<"a", "b", " ", "b", "a", " ", "a", " ", "b">>) }

Init ==
    /\ notes \in InitTables
    /\ nextId = Len(notes) + 1
    /\ model = NoModel
    /\ loads = 0
    /\ last = NoCommand
    /\ deleted = {}
    /\ inp = None
    /\ outp = None
    /\ pc = "cli"

\* main.add
Add(note) ==
    /\ pc = "cli"
    /\ nextId <= MaxId
    /\ \E g \in {get_model(model, loads)},
          embedding_bytes \in {vector_to_bytes(Embed(note))} :
           /\ model' = g.model
           /\ loads' = g.loads
           /\ IF CallBinds(add_note_parameters, 2, {})
              THEN /\ notes' = add_note(notes, nextId, note, Some(embedding_bytes))
                   /\ nextId' = NewRowId(notes, nextId) + 1
                   /\ last' = [NoCommand EXCEPT !.op = "add", !.arg = note,
                                                !.before = notes, !.embeds = 1]
              ELSE /\ UNCHANGED <<notes, nextId>>
                   /\ last' = [NoCommand EXCEPT !.op = "add", !.arg = note,
                                                !.status = "error", !.err = "TypeError",
                                                !.before = notes, !.embeds = 1]
    /\ UNCHANGED <<deleted, inp, outp, pc>>

\* main.delete
Delete(note_id) ==
    /\ pc = "cli"
    /\ notes' = delete_note(notes, note_id)
    /\ deleted' = deleted \cup {notes[i].id : i \in {j \in 1..Len(notes) : Str(notes[j].id) = note_id}}
    /\ last' = [NoCommand EXCEPT !.op = "delete", !.arg = note_id, !.before = notes]
    /\ UNCHANGED <<nextId, model, loads, inp, outp, pc>>

\* main.list_notes
ListNotes ==
    /\ pc = "cli"
    /\ last' = [NoCommand EXCEPT !.op = "list", !.out = get_all_notes(notes),
                                 !.before = notes]
    /\ UNCHANGED <<notes, nextId, model, loads, deleted, inp, outp, pc>>

\* main.find
Find(query) ==
    /\ pc = "cli"
    /\ \E g \in {get_model(model, loads)}, r \in {find(query, notes)} :
           /\ model' = g.model
           /\ loads' = g.loads
           /\ last' = [NoCommand EXCEPT !.op = "find", !.arg = query,
                                        !.status = r.status, !.err = r.err,
                                        !.out = r.out, !.before = notes,
                                        !.cands = r.cands, !.engine = r.engine,
                                        !.embeds = 1]
    /\ UNCHANGED <<notes, nextId, deleted, inp, outp, pc>>

\* main.ingest
Ingest(file) ==
    /\ pc = "cli"
    /\ \E r \in {ingest_file(file, notes, nextId, model, loads)} :
           /\ notes' = r.notes
           /\ nextId' = r.seq
           /\ model' = r.model
           /\ loads' = r.loads
           /\ last' = [NoCommand EXCEPT !.op = "ingest", !.arg = file,
                                        !.status = r.status, !.err = r.err,
                                        !.out = r.out, !.before = notes,
                                        !.chunker = r.chunker, !.embeds = r.embeds]
    /\ UNCHANGED <<deleted, inp, outp, pc>>

Next ==
    \/ \E note \in Texts : Add(note)
    \/ \E note_id \in DeleteArgs : Delete(note_id)
    \/ ListNotes
    \/ \E query \in Texts : Find(query)
    \/ \E file \in Files : Ingest(file)

Spec == Init /\ [][Next]_vars

(***************************************************************************)
(* Claims on the commands.                                                 *)
(***************************************************************************)
\* The places in the table of the notes that carry an embedding.
Embedded == {i \in 1..Len(notes) : Len(notes[i].embedding) = 1}

\* The similarity of the query of the last find to the stored note at place
\* i, by the single-pair function.
ScoreOf(i) ==
    cosine_similarity(Some(Embed(last.arg)), bytes_to_vector(notes[i].embedding).val)

\* The place in the table of the note an entry of find's result shows.
PlaceOf(entry) == CHOOSE i \in 1..Len(notes) : Str(notes[i].id) = entry.note.id

Shown == {PlaceOf(last.out[j]) : j \in 1..Len(last.out)}

\* The data model's invariant: every embedding is absent or a float32 vector
\* of the length the embedder gives.
WellFormedStore ==
    \A i \in Embedded :
        /\ Len(notes[i].embedding[1]) % 4 = 0
        /\ Len(notes[i].embedding[1]) \div 4 = Len(Embed(<<>>))

\* C1: on a store that keeps the data model's invariant (and on any store on
\* which find ends well) the result of find is the first TopK entries of the
\* embedded notes in descending order of similarity, equal similarities in
\* ascending order of id: it has min(TopK, number of embedded notes)
\* entries, each an embedded note with its similarity, and no embedded note
\* left out scores higher than one returned (nor the same with a smaller id).
C1_FindReturnsTopK ==
    (last.op = "find" /\ (WellFormedStore \/ last.status = "ok")) =>
        /\ last.status = "ok"
        /\ Len(last.out) = Min(TopK, Cardinality(Embedded))
        /\ \A j \in 1..Len(last.out) :
              /\ \E i \in Embedded : Str(notes[i].id) = last.out[j].note.id
              /\ last.out[j].note.content = notes[PlaceOf(last.out[j])].content
              /\ last.out[j].note.embedding = notes[PlaceOf(last.out[j])].embedding
              /\ last.out[j].similarity = ScoreOf(PlaceOf(last.out[j]))
        /\ \A j, k \in 1..Len(last.out) :
              j < k =>
                 /\ ~ScoreLess(last.out[j].similarity, last.out[k].similarity)
                 /\ last.out[j].similarity = last.out[k].similarity
                       => PlaceOf(last.out[j]) < PlaceOf(last.out[k])
        /\ \A i \in Embedded \ Shown : \A j \in 1..Len(last.out) :
              /\ ~ScoreLess(last.out[j].similarity, ScoreOf(i))
              /\ last.out[j].similarity = ScoreOf(i) => PlaceOf(last.out[j]) < i

\* C1's case: more embedded notes than TopK, two returned notes with equal
\* similarity, two with different ones, and a note left out.
C1_Witness ==
    /\ last.op = "find" /\ last.status = "ok"
    /\ Cardinality(Embedded) > TopK
    /\ Len(last.out) = TopK
    /\ \E j, k \in 1..Len(last.out) :
          j < k /\ last.out[j].similarity = last.out[k].similarity
    /\ \E j, k \in 1..Len(last.out) :
          ScoreLess(last.out[k].similarity, last.out[j].similarity)

\* Whether the stored embeddings alone make the arrays of find ill-formed: a
\* blob that is no float32 array, two vectors of different lengths, or a
\* length other than the query's.
Degenerate(i) ==
    \/ Len(notes[i].embedding[1]) % 4 # 0
    \/ Len(notes[i].embedding[1]) \div 4 # Len(Embed(last.arg))
    \/ \E k \in Embedded : Len(notes[k].embedding[1]) # Len(notes[i].embedding[1])

\* C2: find never returns or scores a note without embedding, takes none as
\* a candidate, and fails only when an embedded note is degenerate; when the
\* store is empty or no note has an embedding, find ends well with an empty
\* result and the similarity engine is not invoked.
C2_FindSkipsAbsentEmbeddings ==
    (last.op = "find") =>
        /\ \A j \in 1..Len(last.out) : Len(last.out[j].note.embedding) = 1
        /\ \A j \in 1..Len(last.cands) :
              \E i \in Embedded : Str(notes[i].id) = last.cands[j]
        /\ (last.status = "error") => \E i \in Embedded : Degenerate(i)
        /\ (Embedded = {}) =>
              /\ last.status = "ok"
              /\ last.out = <<>>
              /\ ~last.engine

\* C2's case: after an add and a delete, a find on a store that holds a note
\* without embedding beside embedded ones returns a result.
C2_Witness ==
    /\ last.op = "find" /\ last.status = "ok"
    /\ last.out # <<>>
    /\ \E i \in 1..Len(notes) : i \notin Embedded
    /\ deleted # {}
    /\ \E i \in 1..Len(notes) : notes[i].id > MaxInit

\* The store without embedded notes: find ends well, empty, without the engine.
C2_WitnessNoEmbedding ==
    /\ last.op = "find"
    /\ notes # <<>>
    /\ Embedded = {}
    /\ last.out = <<>>

\* C3: a note delete has removed is in no later table, get_all_notes result
\* or candidate set of find; delete leaves every other note as it was, in
\* place, and no other command removes or changes a note.
C3_DeletedStaysDeleted ==
    /\ \A i \in 1..Len(notes) : notes[i].id \notin deleted
    /\ (last.op = "list") =>
          /\ Len(last.out) = Len(notes)
          /\ \A j \in 1..Len(last.out) :
                ~(\E d \in deleted : Str(d) = last.out[j].id)
    /\ (last.op = "find") =>
          \A j \in 1..Len(last.cands) : ~(\E d \in deleted : Str(d) = last.cands[j])
    /\ (last.op = "delete") =>
          /\ ~(\E i \in 1..Len(notes) : Str(notes[i].id) = last.arg)
          /\ notes = SelectSeq(last.before, LAMBDA n : Str(n.id) # last.arg)
    /\ (last.op \in {"add", "ingest", "list", "find"}) =>
          /\ Len(notes) >= Len(last.before)
          /\ SubSeq(notes, 1, Len(last.before)) = last.before

\* C3's case: a stored note was deleted, a note was added after that, and a
\* find then ranked the notes that are left.
C3_Witness ==
    /\ deleted # {}
    /\ last.op = "find"
    /\ last.cands # <<>>
    /\ \E i \in 1..Len(notes) : \A d \in deleted : notes[i].id > d
    /\ \E i \in 1..Len(notes) : \E d \in deleted : notes[i].id < d

\* Whether ingest_file has no input error to report on the file.
Ingestible(file) ==
    /\ file.exists /\ file.is_file /\ file.utf8
    /\ \/ file.mime_type \in allowed_types
       \/ file.mime_type = "None" /\ file.suffix \in text_extensions

\* C4: ingesting a supported, decodable text file of n >= 1 chunks appends n
\* notes, in chunk order, each with its chunk as content and an embedding,
\* and returns n.
C4_IngestInsertsChunks ==
    (last.op = "ingest" /\ Ingestible(last.arg)
        /\ Len(chunk_text(last.arg.text, IngestChunkSize)) >= 1) =>
        LET chunks == chunk_text(last.arg.text, IngestChunkSize)
        IN  /\ last.status = "ok"
            /\ last.out = Len(chunks)
            /\ Len(notes) = Len(last.before) + Len(chunks)
            /\ SubSeq(notes, 1, Len(last.before)) = last.before
            /\ \A i \in 1..Len(chunks) :
                  /\ notes[Len(last.before) + i].content = chunks[i]
                  /\ Len(notes[Len(last.before) + i].embedding) = 1

\* C8: find never fails, whatever the stored embeddings are: a note whose
\* embedding is degenerate is left out or scored 0.0, and the others are
\* ranked.
C8_FindNeverFails ==
    (last.op = "find") =>
        /\ last.status = "ok"
        /\ \A j \in 1..Len(last.out) :
              Degenerate(PlaceOf(last.out[j])) => last.out[j].similarity = Zero

\* C10: when ingest_file reports an input error (a missing path, a path that
\* is no file, an unsupported type, bytes that are no UTF-8) the store is as
\* before and neither the chunker nor the embedder was invoked; and it
\* reports one on every such path.
C10_InputErrorsLeaveStore ==
    (last.op = "ingest") =>
        /\ (~Ingestible(last.arg)) =>
              /\ last.status = "error"
              /\ last.err =
                    IF ~last.arg.exists THEN "FileNotFoundError"
                    ELSE IF ~last.arg.is_file THEN "ValueError"
                    ELSE IF ~(\/ last.arg.mime_type \in allowed_types
                              \/ last.arg.mime_type = "None"
                                 /\ last.arg.suffix \in text_extensions)
                    THEN "ValueError"
                    ELSE "IOError"
        /\ (last.status = "error"
              /\ last.err \in {"FileNotFoundError", "ValueError", "IOError"}) =>
              /\ notes = last.before
              /\ ~last.chunker
              /\ last.embeds = 0

\* C10's case: on a store that holds notes, the ingest of a file of
\* unsupported type whose bytes would decode.
C10_Witness ==
    /\ last.op = "ingest"
    /\ last.status = "error"
    /\ last.err = "ValueError"
    /\ last.arg.exists /\ last.arg.is_file /\ last.arg.utf8
    /\ notes # <<>>

\* What C11 asks of one command: a command that makes no call of
\* text_to_vector leaves the handle and the count of constructions alone; a
\* command that makes one ends with the handle loaded, constructed in it only
\* when there was none; a loaded handle is never reset or replaced.
ModelStep ==
    /\ (last'.embeds = 0) => (model' = model /\ loads' = loads)
    /\ (last'.embeds >= 1) =>
          /\ model' = Loaded
          /\ loads' = IF model = NoModel THEN loads + 1 ELSE loads
    /\ (model # NoModel) => (model' = model /\ loads' = loads)

\* C11: over any sequence of commands of one process the embedding model is
\* constructed at most once, not before the first call of text_to_vector, and
\* every later call finds the same handle: it is never reset or replaced.
C11_ModelLoadedOnce ==
    /\ [](loads <= 1 /\ (model = NoModel <=> loads = 0))
    /\ [][ModelStep]_vars

\* C11's case: an add has embedded a note, and a later find embedded its
\* query with the handle the add constructed.
C11_Witness ==
    /\ last.op = "find" /\ last.embeds = 1
    /\ \E i \in 1..Len(notes) : notes[i].id > MaxInit
    /\ model = Loaded
    /\ loads = 1

\* C12: chunk_text of the empty text returns no segments, so the ingest of
\* an empty file ends well, returns 0, inserts no note and embeds nothing.
C12_EmptyFileNoSegments ==
    (last.op = "ingest" /\ Ingestible(last.arg) /\ last.arg.text = <<>>) =>
        /\ chunk_text(last.arg.text, IngestChunkSize) = <<>>
        /\ last.status = "ok"
        /\ last.out = 0
        /\ notes = last.before
        /\ last.embeds = 0

(***************************************************************************)
(* Claims on the pure functions.                                           *)
(***************************************************************************)

\* C5: the words of the segments chunk_text returns, read in order, are the
\* whitespace-separated words of the input, and every segment is at most
\* chunk_size long unless it is one single word longer than chunk_size.
C5_ChunksKeepWordsAndSize ==
    (pc = "done") =>
        /\ Concat([i \in 1..Len(outp) |-> Split(outp[i])]) = Split(inp.text)
        /\ \A i \in 1..Len(outp) :
              \/ Len(outp[i]) <= inp.chunk_size
              \/ Split(outp[i]) = <<outp[i]>>

\* C5's case: a text longer than chunk_size, cut into several segments, one
\* of them a word longer than chunk_size and one of them holding two words.
C5_Witness ==
    /\ pc = "done"
    /\ Len(inp.text) > inp.chunk_size
    /\ Len(outp) >= 2
    /\ \E i \in 1..Len(outp) : Len(outp[i]) > inp.chunk_size
    /\ \E i \in 1..Len(outp) : Len(Split(outp[i])) = 2

\* C6: for a query q and a matrix M of N >= 0 rows of q's length,
\* cosine_similarity_batch(q, M) has N entries, and entry i is
\* cosine_similarity(q, M[i]): 0.0 for a zero-norm query or row, within
\* [-1, 1]; no rows give an empty result and no error.
C6_BatchEqualsSingle ==
    (pc = "done" /\ \A i \in 1..Len(inp.matrix) : Len(inp.matrix[i]) = Len(inp.query)) =>
        /\ outp.batch.status = "ok"
        /\ Len(outp.batch.val) = Len(inp.matrix)
        /\ \A i \in 1..Len(inp.matrix) :
              /\ outp.batch.val[i] = outp.single[i]
              /\ outp.batch.val[i].q > 0 /\ outp.batch.val[i].p <= outp.batch.val[i].q
              /\ (NormSq(inp.query) = 0 \/ NormSq(inp.matrix[i]) = 0)
                    => outp.batch.val[i] = Zero

\* C6's case: a query of non-zero norm against several rows of its length,
\* one of zero norm and one with a similarity that is not 0.0.
C6_Witness ==
    /\ pc = "done"
    /\ Len(inp.matrix) >= 2
    /\ \A i \in 1..Len(inp.matrix) : Len(inp.matrix[i]) = Len(inp.query)
    /\ NormSq(inp.query) # 0
    /\ \E i \in 1..Len(inp.matrix) : NormSq(inp.matrix[i]) = 0
    /\ outp.batch.status = "ok"
    /\ \E i \in 1..Len(inp.matrix) : outp.batch.val[i] # Zero

\* C7: cosine_similarity returns 0.0 when an input is None, when the lengths
\* differ or when a norm is zero, and otherwise dot(a,b)/(|a||b|); the result
\* is always within [-1, 1].
C7_CosineContract ==
    (pc = "done") =>
        LET a == inp.vec1
            b == inp.vec2
        IN  /\ outp.q > 0 /\ outp.p <= outp.q /\ outp.s \in {-1, 0, 1}
            /\ IF IsNone(a) \/ IsNone(b) THEN outp = Zero
               ELSE IF Len(Val(a)) # Len(Val(b)) THEN outp = Zero
               ELSE IF NormSq(Val(a)) = 0 \/ NormSq(Val(b)) = 0 THEN outp = Zero
               ELSE /\ outp.s = Sign(Dot(Val(a), Val(b)))
                    /\ outp.p * NormSq(Val(a)) * NormSq(Val(b))
                          = Dot(Val(a), Val(b)) * Dot(Val(a), Val(b)) * outp.q

\* C7's case: a zero-norm input of the right length, scored 0.0.
C7_Witness ==
    /\ pc = "done"
    /\ ~IsNone(inp.vec1) /\ ~IsNone(inp.vec2)
    /\ Len(Val(inp.vec1)) = Len(Val(inp.vec2))
    /\ NormSq(Val(inp.vec1)) = 0 /\ NormSq(Val(inp.vec2)) # 0
    /\ outp = Zero

\* C9: vector_to_bytes(v) is 4 * D bytes, bytes_to_vector gives v back field
\* for field, and bytes_to_vector(None) is None.
C9_CodecRoundTrip ==
    /\ (pc = "encoded") =>
          /\ Len(Val(outp.bytes)) = 4 * Len(Val(inp.vector))
          /\ \A i \in 1..Len(Val(outp.bytes)) : Val(outp.bytes)[i] \in 0..255
    /\ (pc = "decoded") =>
          /\ outp.decoded.status = "ok"
          /\ IF IsNone(inp.vector) THEN IsNone(outp.decoded.val)
             ELSE /\ ~IsNone(outp.decoded.val)
                  /\ Len(Val(outp.decoded.val)) = Len(Val(inp.vector))
                  /\ \A i \in 1..Len(Val(inp.vector)) :
                        Val(outp.decoded.val)[i] = Val(inp.vector)[i]

\* C9's case: a vector of several floats with non-zero mantissa bytes, decoded.
C9_Witness ==
    /\ pc = "decoded"
    /\ ~IsNone(inp.vector)
    /\ Len(Val(inp.vector)) >= 2
    /\ \E i \in 1..Len(Val(inp.vector)) : Val(inp.vector)[i][3] % 256 # 0
    /\ outp.decoded.status = "ok"
    /\ Val(outp.decoded.val) = Val(inp.vector)

====
